---------------------------- MODULE Spec2Model ----------------------------
(***************************************************************************)
(* Model of the notebooks of amawest/criminal-expungement:                 *)
(*   src/Machine_Learning/felony_modeling_circuit_all.ipynb  (circuit)     *)
(*   src/unnamed/part_000, second notebook                   (district)    *)
(*   src/unnamed/part_000, first notebook                    (census)      *)
(*                                                                         *)
(* A notebook is a linear sequence of cells.  The state is the set of      *)
(* notebook variables (the dataframes circuit/district, data, data_mj,     *)
(* train, test, the fitted pipeline models, pred, pred_mj, fel) and the    *)
(* position pc of the next cell.  A dataframe is a bag of rows, a row a    *)
(* function from column names to cell values, a cell value a string or     *)
(* the SQL NULL.                                                            *)
(*                                                                         *)
(* The race normalizer is also modelled on its own (SpecNorm): one value   *)
(* is taken through the six regexp_replace steps, NumPasses times; so is   *)
(* the loop that builds the explicit schema of the second read             *)
(* (SpecSchema).  SpecCourt runs the two court notebooks without the       *)
(* census one.                                                             *)
(***************************************************************************)
EXTENDS Integers, Sequences, FiniteSets, Bags, TLC

VARIABLES
    nb,       \* which notebook runs: "circuit", "district" or "census"
    pc,       \* index in Cells(nb) of the next cell to run
    court,    \* the dataframe `circuit` / `district`
    data,     \* the labeled table `data`
    model,    \* `model`: the labels of each fitted StringIndexer
    pred,     \* `pred = model.transform(data)`
    data_mj,  \* `data_mj`
    train,    \* `train` of the marijuana split (circuit)
    test,     \* `test` of the marijuana split (circuit)
    model_mj, \* `model_mj`
    pred_mj,  \* `pred_mj`
    model_rf, \* `model_rf`: the fitted random-forest pipeline
    pred_rf,  \* `pred_rf`
    fel,      \* cross-tab of `data` by RaceClean
    fel_mj,   \* cross-tab of the 18.2-248.1 rows of `data` by RaceClean
    failed,   \* TRUE once a cell has raised
    census,       \* the loaded census table `census`
    census19,     \* the exploratory table `census19`
    census_clean, \* `census_clean`
    inferred, \* SpecSchema: the schema of the first read
    fields,   \* SpecSchema: the list `fields`
    fpos,     \* SpecSchema: position in the schema of the next field of the loop
    schema,   \* SpecSchema: `schema` (NoSchema before it is built)
    nIn,      \* SpecNorm: the raw race value
    nCur,   \* SpecNorm: the value after nStep substitutions
    nStep,  \* SpecNorm: number of substitutions applied so far
    nOut1   \* SpecNorm: the value after the first full pass (NULL before)

normVars == <<nIn, nCur, nStep, nOut1>>
frames == <<court, data, pred, data_mj, train, test, pred_mj, pred_rf, fel, fel_mj>>
pipeVars == <<nb, pc, frames, model, model_mj, model_rf, failed>>
censusVars == <<census, census19, census_clean>>
schemaVars == <<inferred, fields, fpos, schema>>
otherVars == <<normVars, censusVars, schemaVars>>
vars == <<pipeVars, otherVars>>

(***************************************************************************)
(* Cell values.  A string is a TLC string; the SQL NULL is a marker that   *)
(* is no value of the data ('<' occurs in no court field).                 *)
(***************************************************************************)
NULL == "<NULL>"

(***************************************************************************)
(* A Java regular expression of the subset the notebooks use (literal      *)
(* characters, backslash escapes, parentheses) matches one literal string: *)
(* an escaped character stands for itself, an unescaped parenthesis only   *)
(* delimits a group.                                                       *)
(***************************************************************************)
RECURSIVE RegexLiteral(_)
RegexLiteral(p) ==
    IF Len(p) = 0 THEN ""
    ELSE IF SubSeq(p, 1, 1) = "\\" /\ Len(p) >= 2
         THEN SubSeq(p, 2, 2) \o RegexLiteral(SubSeq(p, 3, Len(p)))
    ELSE IF SubSeq(p, 1, 1) \in {"(", ")"}
         THEN RegexLiteral(SubSeq(p, 2, Len(p)))
    ELSE SubSeq(p, 1, 1) \o RegexLiteral(SubSeq(p, 2, Len(p)))

\* The positions of s at which lit occurs.
Matches(s, lit) ==
    {i \in 1..(Len(s) - Len(lit) + 1) : SubSeq(s, i, i + Len(lit) - 1) = lit}

\* Every non-overlapping occurrence of lit in s, leftmost first, replaced
\* by rep (java.util.regex.Matcher.replaceAll on a literal pattern).
RECURSIVE ReplaceAll(_, _, _)
ReplaceAll(s, lit, rep) ==
    IF Len(lit) = 0 \/ Matches(s, lit) = {} THEN s
    ELSE LET at == Matches(s, lit)
             i == CHOOSE m \in at : \A o \in at : m <= o
         IN  SubSeq(s, 1, i - 1) \o rep
                 \o ReplaceAll(SubSeq(s, i + Len(lit), Len(s)), lit, rep)

\* Mutant: a missing value becomes the empty string.
RegexpReplaceNullToEmpty(v, compiled, rep) ==
    IF v = NULL THEN "" ELSE ReplaceAll(v, compiled, rep)

\* F.regexp_replace(col, pattern, rep) on one cell, the pattern compiled
\* to the literal it matches: NULL stays NULL.
RegexpReplace(v, compiled, rep) ==
    IF v = NULL THEN NULL ELSE ReplaceAll(v, compiled, rep)

\* Mutant: the parentheses of the first pattern are not escaped.
RaceRulesUnescaped ==
    << [pat |-> "(Non-Hispanic)", rep |-> ""],
       [pat |-> " Caucasian", rep |-> ""],
       [pat |-> "Asian Or", rep |-> "Asian or"],
       [pat |-> " \\(Includes Not Applicable, Unknown\\)", rep |-> ""],
       [pat |-> "\\(Includes Not Applicable, Unknown\\)", rep |-> ""],
       [pat |-> "Other", rep |-> "Unknown"] >>

\* Mutant: the third pattern is cut short, so its replacement contains it.
RaceRulesShortPattern ==
    << [pat |-> "\\(Non-Hispanic\\)", rep |-> ""],
       [pat |-> " Caucasian", rep |-> ""],
       [pat |-> "Asian", rep |-> "Asian or"],
       [pat |-> " \\(Includes Not Applicable, Unknown\\)", rep |-> ""],
       [pat |-> "\\(Includes Not Applicable, Unknown\\)", rep |-> ""],
       [pat |-> "Other", rep |-> "Unknown"] >>

\* The six substitutions of the RaceClean chain, in their written order.
RaceRules ==
    << [pat |-> "\\(Non-Hispanic\\)", rep |-> ""],
       [pat |-> " Caucasian", rep |-> ""],
       [pat |-> "Asian Or", rep |-> "Asian or"],
       [pat |-> " \\(Includes Not Applicable, Unknown\\)", rep |-> ""],
       [pat |-> "\\(Includes Not Applicable, Unknown\\)", rep |-> ""],
       [pat |-> "Other", rep |-> "Unknown"] >>

NumRules == Len(RaceRules)

\* The patterns of the chain, compiled.
RacePatterns == [k \in DOMAIN RaceRules |-> RegexLiteral(RaceRules[k].pat)]

RECURSIVE Trim(_)
\* A string without its leading and trailing spaces.
Trim(v) ==
    IF v = NULL \/ Len(v) = 0 THEN v
    ELSE IF SubSeq(v, 1, 1) = " " THEN Trim(SubSeq(v, 2, Len(v)))
    ELSE IF SubSeq(v, Len(v), Len(v)) = " " THEN Trim(SubSeq(v, 1, Len(v) - 1))
    ELSE v

\* Mutant: the value is trimmed after each substitution.
ApplyRuleTrimmed(k, v) == Trim(RegexpReplace(v, RacePatterns[k], RaceRules[k].rep))

\* The k-th withColumn('RaceClean', regexp_replace(...)) on one cell.
ApplyRule(k, v) == RegexpReplace(v, RacePatterns[k], RaceRules[k].rep)

(***************************************************************************)
(* SpecNorm: the normalizer as a function of one raw value.                *)
(***************************************************************************)
NumPasses == 2

\* Raw race spellings of the court data, the empty string and NULL.
NormInputs ==
    { "White Caucasian(Non-Hispanic)", "White Caucasian (Non-Hispanic)",
      "Black(Non-Hispanic)", "Black (Non-Hispanic)",
      "Asian Or Pacific Islander", "Asian or Pacific Islander",
      "American Indian", "American Indian Or Alaskan Native",
      "American Indian or Alaskan Native", "Hispanic",
      "Other(Includes Not Applicable, Unknown)",
      "Other (Includes Not Applicable, Unknown)",
      "Unknown (Includes Not Applicable, Unknown)",
      "Unknown", "White", "Black", "White ", "", NULL }

NormInit ==
    /\ nIn \in NormInputs
    /\ nCur = nIn
    /\ nStep = 0
    /\ nOut1 = NULL

NormIdle ==
    /\ nIn = NULL
    /\ nCur = NULL
    /\ nStep = 0
    /\ nOut1 = NULL

\* One regexp_replace step of the chain; after the last rule the chain
\* starts again on its own output.
NormStep ==
    /\ nStep < NumPasses * NumRules
    /\ nCur' = ApplyRule((nStep % NumRules) + 1, nCur)
    /\ nStep' = nStep + 1
    /\ nOut1' = IF nStep' = NumRules THEN nCur' ELSE nOut1
    /\ UNCHANGED nIn

(***************************************************************************)
(* Dataframes.  A dataframe is a bag of rows (a function from the distinct *)
(* rows to their number of copies); a row is a function from column names  *)
(* to cells.                                                                *)
(***************************************************************************)
NumRows(df) == BagCardinality(df)

\* The rows of df that are in S, with their copies.
Restrict(df, S) == [r \in DOMAIN df \cap S |-> df[r]]

\* df.filter(cond), cond a column (a value per row of df): the rows on
\* which the condition is true; a false or NULL condition drops the row.
Filter(df, cond) == Restrict(df, {r \in DOMAIN df : cond[r] = "true"})

\* A row with column col set to val (added, or replaced when present).
SetCol(r, col, val) == (col :> val) @@ r

\* The image of a dataframe under a row function, copies added up.
MapRows(df, out) ==
    LET img == {<<r, out[r]>> : r \in DOMAIN df}
    IN  [s \in {p[2] : p \in img} |->
            BagCardinality(Restrict(df, {p[1] : p \in {q \in img : q[2] = s}}))]

\* df.withColumn(col, expr), expr a column (a value per row of df).
WithColumn(df, col, expr) == MapRows(df, [r \in DOMAIN df |-> SetCol(r, col, expr[r])])

\* Number of rows of df that are in S.
CountWhere(df, S) == BagCardinality(Restrict(df, S))

(***************************************************************************)
(* SQL three-valued conditions: "true", "false" or NULL.                   *)
(***************************************************************************)
\* Mutant: the membership test ignores case in its first letter.
SqlIsinAnyCase(v, S) ==
    IF v = NULL THEN NULL
    ELSE IF v \in S \/ v \in {"felony", "misdemeanor"} THEN "true" ELSE "false"

\* Column.isin(list) on one cell (the list holds no NULL).
SqlIsin(v, S) ==
    IF v = NULL THEN NULL ELSE IF v \in S THEN "true" ELSE "false"

\* Column == literal on one cell.
SqlEq(v, lit) ==
    IF v = NULL THEN NULL ELSE IF v = lit THEN "true" ELSE "false"

\* Mutant: the two branches of the label are swapped.
WhenOtherwiseSwapped(cond, a, b) == IF cond = "true" THEN b ELSE a

\* F.when(cond, a).otherwise(b): a where cond is true, b where it is false
\* or NULL.
WhenOtherwise(cond, a, b) == IF cond = "true" THEN a ELSE b

(***************************************************************************)
(* The two notebooks differ in the names of two columns and in the         *)
(* jurisdiction predictor, which only the circuit notebook uses.           *)
(***************************************************************************)
Notebooks == {"circuit", "district"}

ChargeTypeCol(n) == IF n = "circuit" THEN "ChargeType" ELSE "CaseType"
SexCol(n) == IF n = "circuit" THEN "Sex" ELSE "Gender"

\* The columns of the loaded table that the notebook reads.
RawCols(n) ==
    IF n = "circuit"
    THEN {"Race", "Sex", "CodeSection", "fips", "ChargeType"}
    ELSE {"Race", "Gender", "CodeSection", "CaseType"}

AcceptedLabels == {"Misdemeanor", "Felony"}
MjCode == "18.2-248.1"

(***************************************************************************)
(* pyspark.ml feature stages, as the notebooks parameterize them.          *)
(***************************************************************************)
Range(f) == {f[i] : i \in DOMAIN f}

\* The distinct non-missing values of a column.
Observed(df, col) == {r[col] : r \in DOMAIN df} \ {NULL}

\* Number of rows holding value v in column col.
Freq(df, col, v) == CountWhere(df, {r \in DOMAIN df : r[col] = v})

\* All orders of a finite set.
Orders(S) ==
    {s \in [1..Cardinality(S) -> S] : \A i, j \in DOMAIN s : i # j => s[i] # s[j]}

\* Mutant: labels ordered by ascending frequency.
FreqAscOrders(df, col) ==
    LET n == [v \in Observed(df, col) |-> Freq(df, col, v)]
    IN  {s \in Orders(DOMAIN n) : \A i, j \in DOMAIN s : i < j => n[s[i]] <= n[s[j]]}

\* StringIndexer.fit: the distinct non-missing values by descending
\* frequency.  The order of equally frequent values is not specified
\* (it comes from the iteration order of a hash map): any order.
FreqDescOrders(df, col) ==
    LET n == [v \in Observed(df, col) |-> Freq(df, col, v)]
    IN  {s \in Orders(DOMAIN n) : \A i, j \in DOMAIN s : i < j => n[s[i]] >= n[s[j]]}

\* Position of a label, counted from 0.
IndexOf(labels, v) == (CHOOSE i \in DOMAIN labels : labels[i] = v) - 1

\* Mutant: invalid values are kept in an extra bucket.
HandleInvalidKeep == "keep"

\* Mutant: invalid values raise (the library default).
HandleInvalidError == "error"

\* handleInvalid of every StringIndexer and VectorAssembler.
HandleInvalid == "skip"

\* A value the fitted indexer has a label for.
Known(labels, v) == v # NULL /\ v \in Range(labels)

\* StringIndexerModel.transform under a handleInvalid policy.
IndexerTransform(df, in, out, labels, policy) ==
    LET known == Restrict(df, {r \in DOMAIN df : Known(labels, r[in])})
        indexed == WithColumn(known, out, [r \in DOMAIN known |-> IndexOf(labels, r[in])])
    IN  IF policy = "skip"
        THEN [raised |-> FALSE, df |-> indexed]
        ELSE IF policy = "keep"
        THEN [raised |-> FALSE,
              df |-> WithColumn(df, out,
                                [r \in DOMAIN df |-> IF Known(labels, r[in])
                                                     THEN IndexOf(labels, r[in])
                                                     ELSE Len(labels)])]
        ELSE [raised |-> \E r \in DOMAIN df : ~Known(labels, r[in]), df |-> indexed]

\* Mutant: the encoder drops the positions of the last two categories.
OneHotDropLastTwo(i, n) ==
    IF n <= 2 THEN <<>> ELSE [k \in 1..(n - 2) |-> IF k = i + 1 THEN 1 ELSE 0]

\* Mutant: the encoder keeps a position for the last category (dropLast off).
OneHotKeepLast(i, n) == [k \in 1..n |-> IF k = i + 1 THEN 1 ELSE 0]

\* OneHotEncoder (dropLast): index i of n categories becomes the vector of
\* length n-1 with a single 1 at position i; the last category, and the
\* extra index of a kept invalid value, become the zero vector.
OneHot(i, n) ==
    IF n <= 1 THEN <<>> ELSE [k \in 1..(n - 1) |-> IF k = i + 1 THEN 1 ELSE 0]

\* Mutant: the encoder emits an attribute name for the dropped category too.
OneHotAttrsKeepLast(out, labels) == [k \in 1..Len(labels) |-> out \o "_" \o labels[k]]

\* The attribute names of a one-hot column: one per category but the last.
OneHotAttrs(out, labels) ==
    IF Len(labels) <= 1 THEN <<>>
    ELSE [k \in 1..(Len(labels) - 1) |-> out \o "_" \o labels[k]]

RECURSIVE Concat(_, _)
\* Concatenation of f[cols[1]], f[cols[2]], ...
Concat(cols, f) ==
    IF cols = <<>> THEN <<>> ELSE f[Head(cols)] \o Concat(Tail(cols), f)

\* The stages of a pipeline up to the classifier.
IndexerStage(in, out) == [kind |-> "indexer", in |-> in, ins |-> <<>>, out |-> out]
OneHotStage(in, out) == [kind |-> "onehot", in |-> in, ins |-> <<>>, out |-> out]
\* Mutant: the assembler takes its columns in the order the encoders run in
\* the pipeline (the sex block, encoded first, comes first).
AssemblerStageInStageOrder(ins) ==
    [kind |-> "assembler", in |-> "",
     ins |-> <<ins[Len(ins)]>> \o SubSeq(ins, 1, Len(ins) - 1), out |-> "features"]

AssemblerStage(ins) == [kind |-> "assembler", in |-> "", ins |-> ins, out |-> "features"]

\* Metadata a stage adds to the schema: the labels of an indexed column,
\* the attribute names of a one-hot or assembled column.
StageMeta(st, meta, labels) ==
    IF st.kind = "indexer" THEN (st.out :> labels) @@ meta
    ELSE IF st.kind = "onehot" THEN (st.out :> OneHotAttrs(st.out, meta[st.in])) @@ meta
    ELSE (st.out :> Concat(st.ins, meta)) @@ meta

\* One fitted stage applied to a dataframe.
StageTransform(st, df, meta) ==
    IF st.kind = "indexer"
    THEN IndexerTransform(df, st.in, st.out, meta[st.out], HandleInvalid)
    ELSE IF st.kind = "onehot"
    THEN [raised |-> FALSE,
          df |-> WithColumn(df, st.out,
                            [r \in DOMAIN df |-> OneHot(r[st.in], Len(meta[st.in]))])]
    ELSE [raised |-> FALSE,
          df |-> WithColumn(df, st.out, [r \in DOMAIN df |-> Concat(st.ins, r)])]

RECURSIVE PipelineTransform(_, _, _)
\* PipelineModel.transform: the fitted stages in order.
PipelineTransform(stages, df, meta) ==
    IF stages = <<>> THEN [raised |-> FALSE, df |-> df]
    ELSE LET t == StageTransform(Head(stages), df, meta)
         IN  IF t.raised THEN t ELSE PipelineTransform(Tail(stages), t.df, meta)

RECURSIVE PipelineFits(_, _, _)
\* Pipeline.fit: each estimator is fitted on the output of the stages
\* before it, then transforms that output for the stages after it.  The
\* set of fitted models the call can return (one per order of ties).
PipelineFits(stages, df, meta) ==
    IF stages = <<>> THEN {[raised |-> FALSE, meta |-> meta, df |-> df]}
    ELSE LET st == Head(stages)
             choices == IF st.kind = "indexer"
                        THEN FreqDescOrders(df, st.in) ELSE {<<>>}
         IN  UNION { LET m2 == StageMeta(st, meta, L)
                         t == StageTransform(st, df, m2)
                     IN  IF t.raised
                         THEN {[raised |-> TRUE, meta |-> m2, df |-> t.df]}
                         ELSE PipelineFits(Tail(stages), t.df, m2)
                   : L \in choices }

NoMeta == <<>>

(***************************************************************************)
(* The classifier, last stage of every pipeline.  Its numeric fit is not   *)
(* modelled; what is kept of the fitted classifier is the size of its      *)
(* coefficient (or importance) vector, the penalty terms of the objective  *)
(* and the table its summary is computed on.                               *)
(***************************************************************************)
\* logm = LogisticRegression(labelCol = 'Felony', elasticNetParam = 1):
\* regParam is not passed and keeps the library default, 0.0.
ElasticNetParam == 1
RegParam == 0

\* The dimension of the features column of the table a classifier is fitted
\* on, read from its rows.  A table without rows has no vector to read a
\* size from (0 here; the library fits no classifier on such a table).
NumFeatures(df) ==
    IF df = EmptyBag THEN 0 ELSE Len((CHOOSE r \in DOMAIN df : TRUE)["features"])

\* logm fitted on an encoded table: one coefficient per dimension; the
\* objective is the log-loss plus regParam * (elasticNetParam * L1 +
\* (1 - elasticNetParam) / 2 * L2), kept here as the weights of the L1 and
\* of the L2 term; model.stages[-1].summary is the summary of the
\* training, computed on the rows of the fit.
LogisticFit(df) ==
    [kind |-> "logistic",
     trainedOn |-> NumRows(df),
     numFeatures |-> NumFeatures(df),
     l1 |-> RegParam * ElasticNetParam,
     l2 |-> RegParam * (1 - ElasticNetParam),
     summary |-> df]

\* rf fitted on an encoded table: one importance per dimension.
RandomForestFit(df) ==
    [kind |-> "forest", trainedOn |-> NumRows(df), numFeatures |-> NumFeatures(df)]

\* A fitted pipeline: the metadata of its feature stages and its classifier.
PipelineModel(meta, clf) == ("classifier" :> clf) @@ meta

\* The columns a fitted classifier adds to a table it transforms (of
\* rawPrediction, probability and prediction the two the notebooks select).
ClassifierCols == {"probability", "prediction"}

\* Mutant: the classifier reads the charge type of the row as well.
ClassifierOutputOfChargeType(clf, col, r) ==
    <<clf.kind, col, r["features"],
      IF "ChargeType" \in DOMAIN r THEN r["ChargeType"] ELSE r["CaseType"]>>

\* The value a fitted classifier writes in column col of row r.  Both
\* classifiers read featuresCol = 'features' and nothing else of the row;
\* the numeric value is not computed, it is kept as the term "what this
\* classifier computes for this vector".
ClassifierOutput(clf, col, r) == <<clf.kind, col, r["features"]>>

\* The last stage of PipelineModel.transform: the classifier's columns are
\* appended to every row of the encoded table.
ClassifierTransform(clf, df) ==
    MapRows(df, [r \in DOMAIN df |->
                   [c \in DOMAIN r \cup ClassifierCols |->
                      IF c \in ClassifierCols THEN ClassifierOutput(clf, c, r)
                      ELSE r[c]]])

\* pipeline / pipeline_rf: all predictors.
CircuitFullStages ==
    << IndexerStage("Sex", "GendInd"), OneHotStage("GendInd", "GenderOH"),
       IndexerStage("RaceClean", "RaceInd"), OneHotStage("RaceInd", "RaceOH"),
       IndexerStage("CodeSection", "ChargeInd"), OneHotStage("ChargeInd", "ChargeCodeOH"),
       IndexerStage("fips", "FipsInd"), OneHotStage("FipsInd", "FipsOH"),
       AssemblerStage(<<"RaceOH", "ChargeCodeOH", "FipsOH", "GenderOH">>) >>

DistrictFullStages ==
    << IndexerStage("Gender", "GendInd"), OneHotStage("GendInd", "GenderOH"),
       IndexerStage("RaceClean", "RaceInd"), OneHotStage("RaceInd", "RaceOH"),
       IndexerStage("CodeSection", "ChargeInd"), OneHotStage("ChargeInd", "ChargeCodeOH"),
       AssemblerStage(<<"RaceOH", "ChargeCodeOH", "GenderOH">>) >>

FullStages(n) == IF n = "circuit" THEN CircuitFullStages ELSE DistrictFullStages

\* pipeline_mj: race and sex only.
CircuitMjStages ==
    << IndexerStage("Sex", "GendInd"), OneHotStage("GendInd", "GenderOH"),
       IndexerStage("RaceClean", "RaceInd"), OneHotStage("RaceInd", "RaceOH"),
       AssemblerStage(<<"RaceOH", "GenderOH">>) >>

DistrictMjStages ==
    << IndexerStage("Gender", "GendInd"), OneHotStage("GendInd", "GenderOH"),
       IndexerStage("RaceClean", "RaceInd"), OneHotStage("RaceInd", "RaceOH"),
       AssemblerStage(<<"RaceOH", "GenderOH">>) >>

MjStages(n) == IF n = "circuit" THEN CircuitMjStages ELSE DistrictMjStages

(***************************************************************************)
(* Aggregation and random split.                                           *)
(***************************************************************************)
RECURSIVE SumOver(_, _, _)
\* F.sum(col) over the rows of df in the set S: copies times value.
SumOver(S, df, col) ==
    IF S = {} THEN 0
    ELSE LET r == CHOOSE x \in S : TRUE
         IN  df[r] * r[col] + SumOver(S \ {r}, df, col)

\* n_felonies / count: Spark's division gives NULL for a zero divisor.
\* A defined quotient is kept as the pair <<numerator, denominator>>.
Divide(n, d) == IF d = 0 THEN NULL ELSE <<n, d>>

\* Mutant: n_felonies is the sum of the label over the whole table.
CrossTabSummingAllRows(df) ==
    [k \in {r["RaceClean"] : r \in DOMAIN df} |->
        LET grp == Restrict(df, {r \in DOMAIN df : r["RaceClean"] = k})
            cnt == CountWhere(grp, {r \in DOMAIN grp : r["RaceClean"] # NULL})
            nfel == SumOver(DOMAIN df, df, "Felony")
        IN  [count |-> cnt, n_felonies |-> nfel, percent |-> Divide(nfel, cnt)]]

\* Mutant: the rows of a group are counted whatever their key (count('*')).
CrossTabCountingRows(df) ==
    [k \in {r["RaceClean"] : r \in DOMAIN df} |->
        LET grp == Restrict(df, {r \in DOMAIN df : r["RaceClean"] = k})
            cnt == NumRows(grp)
            nfel == SumOver(DOMAIN grp, grp, "Felony")
        IN  [count |-> cnt, n_felonies |-> nfel, percent |-> Divide(nfel, cnt)]]

\* df.groupBy('RaceClean').agg(count(RaceClean), sum(Felony)) with the
\* percent column: one entry per distinct key, NULL being a key of its own;
\* F.count counts the non-missing values of the column.
CrossTab(df) ==
    [k \in {r["RaceClean"] : r \in DOMAIN df} |->
        LET grp == Restrict(df, {r \in DOMAIN df : r["RaceClean"] = k})
            cnt == CountWhere(grp, {r \in DOMAIN grp : r["RaceClean"] # NULL})
            nfel == SumOver(DOMAIN grp, grp, "Felony")
        IN  [count |-> cnt, n_felonies |-> nfel, percent |-> Divide(nfel, cnt)]]

\* The bags contained in df.
SubBags(df) ==
    LET D == DOMAIN df
        top == IF D = {} THEN 0 ELSE CHOOSE m \in Range(df) : \A x \in Range(df) : x <= m
    IN  { [r \in {x \in D : c[x] > 0} |-> c[r]] :
            c \in {f \in [D -> 0..top] : \A r \in D : f[r] <= df[r]} }

(***************************************************************************)
(* The loaded table.  Each row differs from BaseRow in at most one column; *)
(* a table holds from 1 to MaxRows rows, of at most two kinds besides      *)
(* BaseRow.                                                                *)
(***************************************************************************)
MaxRows == 3

ColValues(c) ==
    IF c = "Race"
    THEN {"White Caucasian (Non-Hispanic)", "White Caucasian(Non-Hispanic)",
          "Black(Non-Hispanic)", NULL}
    ELSE IF c \in {"Sex", "Gender"} THEN {"Male", "Female", NULL}
    ELSE IF c = "CodeSection" THEN {"18.2-248.1", "18.2-250", NULL}
    ELSE IF c = "fips" THEN {"3", "99", NULL}
    ELSE {"Felony", "Misdemeanor", "Dismissed", "felony", NULL}

BaseRow(n) ==
    [c \in RawCols(n) |->
        IF c = "Race" THEN "White Caucasian (Non-Hispanic)"
        ELSE IF c \in {"Sex", "Gender"} THEN "Male"
        ELSE IF c = "CodeSection" THEN "18.2-248.1"
        ELSE IF c = "fips" THEN "3"
        ELSE "Felony"]

RowPool(n) ==
    UNION { {SetCol(BaseRow(n), c, v) : v \in ColValues(c)} : c \in RawCols(n) }

RECURSIVE BagsUpTo(_, _)
\* The bags of at most k elements of S.
BagsUpTo(S, k) ==
    IF k = 0 THEN {EmptyBag}
    ELSE LET B == BagsUpTo(S, k - 1)
         IN  B \cup {b (+) SetToBag({x}) : b \in B, x \in S}

\* The loaded tables: at most MaxRows rows, of at most two kinds besides
\* the base row.
Tables(n) ==
    UNION { BagsUpTo({BaseRow(n), x, y}, MaxRows) : x, y \in RowPool(n) } \ {EmptyBag}

(***************************************************************************)
(* The cells of a notebook, in order.                                      *)
(***************************************************************************)
Cell(op, k) == [op |-> op, k |-> k]

CircuitCells ==
    << Cell("clean", 1), Cell("clean", 2), Cell("clean", 3),
       Cell("clean", 4), Cell("clean", 5), Cell("clean", 6),
       Cell("filter", 0), Cell("label", 0), Cell("split", 0),
       Cell("fit", 0), Cell("filter_mj", 0), Cell("split_mj", 0),
       Cell("fit_mj", 0), Cell("transform_mj", 0),
       Cell("crosstab", 0), Cell("crosstab_mj", 0),
       Cell("fit_rf", 0), Cell("fit_rf_mj", 0) >>

DistrictCells ==
    << Cell("clean", 1), Cell("clean", 2), Cell("clean", 3),
       Cell("clean", 4), Cell("clean", 5), Cell("clean", 6),
       Cell("filter", 0), Cell("label", 0),
       Cell("fit", 0), Cell("filter_mj", 0),
       Cell("fit_mj", 0), Cell("transform_mj", 0),
       Cell("crosstab", 0), Cell("crosstab_mj", 0),
       Cell("fit_rf", 0), Cell("fit_rf_mj", 0) >>

\* The census notebook: the exploratory table of 2019, then the cleaned
\* table.
CensusCells ==
    << Cell("census19_year", 0), Cell("census19_age", 0),
       Cell("census_rows", 0), Cell("recode_year", 0), Cell("drop_columns", 0) >>

Cells(n) ==
    IF n = "circuit" THEN CircuitCells
    ELSE IF n = "district" THEN DistrictCells
    ELSE CensusCells

AtCell(op) == ~failed /\ pc \in DOMAIN Cells(nb) /\ Cells(nb)[pc].op = op
Finished == pc = Len(Cells(nb)) + 1

PipeInit ==
    /\ nb \in Notebooks
    /\ pc = 1
    /\ court \in Tables(nb)
    /\ data = EmptyBag /\ pred = EmptyBag /\ data_mj = EmptyBag
    /\ train = EmptyBag /\ test = EmptyBag /\ pred_mj = EmptyBag
    /\ model = NoMeta /\ model_mj = NoMeta
    /\ model_rf = NoMeta /\ pred_rf = EmptyBag
    /\ fel = <<>> /\ fel_mj = <<>>
    /\ failed = FALSE

\* No court table is loaded.
NoFrames ==
    /\ court = EmptyBag
    /\ data = EmptyBag /\ pred = EmptyBag /\ data_mj = EmptyBag
    /\ train = EmptyBag /\ test = EmptyBag /\ pred_mj = EmptyBag
    /\ model = NoMeta /\ model_mj = NoMeta
    /\ model_rf = NoMeta /\ pred_rf = EmptyBag
    /\ fel = <<>> /\ fel_mj = <<>>
    /\ failed = FALSE

PipeIdle ==
    /\ nb = "circuit"
    /\ pc = 0
    /\ NoFrames

\* circuit = circuit.withColumn('RaceClean', F.regexp_replace(col, pat, rep)):
\* the first step reads Race, the later ones RaceClean.
CleanRace ==
    /\ AtCell("clean")
    /\ LET k == Cells(nb)[pc].k
           src == IF k = 1 THEN "Race" ELSE "RaceClean"
       IN  court' = WithColumn(court, "RaceClean",
                             [r \in DOMAIN court |-> ApplyRule(k, r[src])])
    /\ pc' = pc + 1
    /\ UNCHANGED <<nb, data, pred, data_mj, train, test, pred_mj, fel, fel_mj,
                   model, model_mj, model_rf, pred_rf, failed, otherVars>>

\* data = circuit.filter(circuit.ChargeType.isin(['Misdemeanor', 'Felony']))
FilterCharge ==
    /\ AtCell("filter")
    /\ data' = Filter(court, [r \in DOMAIN court |->
                                 SqlIsin(r[ChargeTypeCol(nb)], AcceptedLabels)])
    /\ pc' = pc + 1
    /\ UNCHANGED <<nb, court, pred, data_mj, train, test, pred_mj, fel, fel_mj,
                   model, model_mj, model_rf, pred_rf, failed, otherVars>>

\* data = data.withColumn('Felony', F.when(data.ChargeType == 'Felony', 1).otherwise(0))
LabelFelony ==
    /\ AtCell("label")
    /\ data' = WithColumn(data, "Felony",
                  [r \in DOMAIN data |->
                      WhenOtherwise(SqlEq(r[ChargeTypeCol(nb)], "Felony"), 1, 0)])
    /\ pc' = pc + 1
    /\ UNCHANGED <<nb, court, pred, data_mj, train, test, pred_mj, fel, fel_mj,
                   model, model_mj, model_rf, pred_rf, failed, otherVars>>

\* train, test = data.randomSplit([0.9, 0.1], seed), in the cell before the
\* fit of the circuit notebook: every row goes to one of the two parts;
\* which one is decided by a pseudo-random draw.
SplitData ==
    /\ AtCell("split")
    /\ \E tr \in SubBags(data) :
          /\ train' = tr
          /\ test' = data (-) tr
    /\ pc' = pc + 1
    /\ UNCHANGED <<nb, court, data, pred, data_mj, pred_mj, fel, fel_mj,
                   model, model_mj, model_rf, pred_rf, failed, otherVars>>

\* Mutant: the full model is fitted on, and applied to, the parts of the
\* split made in the cell before.
FitFullOnSplit ==
    /\ AtCell("fit")
    /\ LET fitIn == IF nb = "circuit" THEN train ELSE data
           trIn == IF nb = "circuit" THEN test ELSE data
       IN  \E m \in PipelineFits(FullStages(nb), fitIn, NoMeta) :
             LET t == PipelineTransform(FullStages(nb), trIn, m.meta)
             IN  IF m.raised \/ t.raised
                 THEN failed' = TRUE /\ UNCHANGED <<pc, model, pred>>
                 ELSE /\ model' = PipelineModel(m.meta, LogisticFit(m.df))
                      /\ pred' = ClassifierTransform(LogisticFit(m.df), t.df)
                      /\ pc' = pc + 1
                      /\ UNCHANGED failed
    /\ UNCHANGED <<nb, court, data, data_mj, train, test, pred_mj, fel, fel_mj,
                   model_mj, model_rf, pred_rf, otherVars>>

\* model = pipeline.fit(data); pred = model.transform(data)
FitFull ==
    /\ AtCell("fit")
    /\ \E m \in PipelineFits(FullStages(nb), data, NoMeta) :
          LET t == PipelineTransform(FullStages(nb), data, m.meta)
          IN  IF m.raised \/ t.raised
              THEN failed' = TRUE /\ UNCHANGED <<pc, model, pred>>
              ELSE /\ model' = PipelineModel(m.meta, LogisticFit(m.df))
                   /\ pred' = ClassifierTransform(LogisticFit(m.df), t.df)
                   /\ pc' = pc + 1
                   /\ UNCHANGED failed
    /\ UNCHANGED <<nb, court, data, data_mj, train, test, pred_mj, fel, fel_mj,
                   model_mj, model_rf, pred_rf, otherVars>>

\* data_mj = data.filter(data.CodeSection.isin(['18.2-248.1']))
FilterMj ==
    /\ AtCell("filter_mj")
    /\ data_mj' = Filter(data, [r \in DOMAIN data |-> SqlIsin(r["CodeSection"], {MjCode})])
    /\ pc' = pc + 1
    /\ UNCHANGED <<nb, court, data, pred, train, test, pred_mj, fel, fel_mj,
                   model, model_mj, model_rf, pred_rf, failed, otherVars>>

\* train, test = data_mj.randomSplit([0.9, 0.1], seed)
SplitMj ==
    /\ AtCell("split_mj")
    /\ \E tr \in SubBags(data_mj) :
          /\ train' = tr
          /\ test' = data_mj (-) tr
    /\ pc' = pc + 1
    /\ UNCHANGED <<nb, court, data, pred, data_mj, pred_mj, fel, fel_mj,
                   model, model_mj, model_rf, pred_rf, failed, otherVars>>

\* The table the marijuana model is fitted on, and the one it is applied
\* to: train and test in the circuit notebook, data_mj in the district one.
MjFitInput == IF nb = "circuit" THEN train ELSE data_mj

\* Mutant: the marijuana model is applied to the whole marijuana table.
MjTransformInputWhole == data_mj

MjTransformInput == IF nb = "circuit" THEN test ELSE data_mj

\* model_mj = pipeline_mj.fit(...)
FitMj ==
    /\ AtCell("fit_mj")
    /\ \E m \in PipelineFits(MjStages(nb), MjFitInput, NoMeta) :
          IF m.raised
          THEN failed' = TRUE /\ UNCHANGED <<pc, model_mj>>
          ELSE /\ model_mj' = PipelineModel(m.meta, LogisticFit(m.df))
               /\ pc' = pc + 1
               /\ UNCHANGED failed
    /\ UNCHANGED <<nb, frames, model, model_rf, otherVars>>

\* pred_mj = model_mj.transform(...)
TransformMj ==
    /\ AtCell("transform_mj")
    /\ LET t == PipelineTransform(MjStages(nb), MjTransformInput, model_mj)
       IN  IF t.raised
           THEN failed' = TRUE /\ UNCHANGED <<pc, pred_mj>>
           ELSE /\ pred_mj' = ClassifierTransform(model_mj["classifier"], t.df)
                /\ pc' = pc + 1
                /\ UNCHANGED failed
    /\ UNCHANGED <<nb, court, data, pred, data_mj, train, test, fel, fel_mj,
                   model, model_mj, model_rf, pred_rf, otherVars>>

\* Mutant: the first cross-tab groups the marijuana table.
CrossTabAllOfMarijuana ==
    /\ AtCell("crosstab")
    /\ fel' = CrossTab(data_mj)
    /\ pc' = pc + 1
    /\ UNCHANGED <<nb, court, data, pred, data_mj, train, test, pred_mj, fel_mj,
                   model, model_mj, model_rf, pred_rf, failed, otherVars>>

\* fel = data.groupBy('RaceClean').agg(...); percent = n_felonies / count
CrossTabAll ==
    /\ AtCell("crosstab")
    /\ fel' = CrossTab(data)
    /\ pc' = pc + 1
    /\ UNCHANGED <<nb, court, data, pred, data_mj, train, test, pred_mj, fel_mj,
                   model, model_mj, model_rf, pred_rf, failed, otherVars>>

\* Mutant: the second cross-tab groups the whole labeled table.
CrossTabMjUnfiltered ==
    /\ AtCell("crosstab_mj")
    /\ fel_mj' = CrossTab(data)
    /\ pc' = pc + 1
    /\ UNCHANGED <<nb, court, data, pred, data_mj, train, test, pred_mj, fel,
                   model, model_mj, model_rf, pred_rf, failed, otherVars>>

\* fel = data.filter(data.CodeSection == '18.2-248.1').groupBy('RaceClean')...
CrossTabMj ==
    /\ AtCell("crosstab_mj")
    /\ fel_mj' = CrossTab(Filter(data, [r \in DOMAIN data |-> SqlEq(r["CodeSection"], MjCode)]))
    /\ pc' = pc + 1
    /\ UNCHANGED <<nb, court, data, pred, data_mj, train, test, pred_mj, fel,
                   model, model_mj, model_rf, pred_rf, failed, otherVars>>

\* model_rf = pipeline_rf.fit(data); pred_rf = model_rf.transform(data)
FitRf ==
    /\ AtCell("fit_rf")
    /\ \E m \in PipelineFits(FullStages(nb), data, NoMeta) :
          LET t == PipelineTransform(FullStages(nb), data, m.meta)
          IN  IF m.raised \/ t.raised
              THEN failed' = TRUE /\ UNCHANGED <<pc, model_rf, pred_rf>>
              ELSE /\ model_rf' = PipelineModel(m.meta, RandomForestFit(m.df))
                   /\ pred_rf' = ClassifierTransform(RandomForestFit(m.df), t.df)
                   /\ pc' = pc + 1
                   /\ UNCHANGED failed
    /\ UNCHANGED <<nb, court, data, pred, data_mj, train, test, pred_mj, fel, fel_mj,
                   model, model_mj, otherVars>>

\* model_rf = pipeline_mj.fit(data_mj); pred_rf = model_rf.transform(data_mj)
FitRfMj ==
    /\ AtCell("fit_rf_mj")
    /\ \E m \in PipelineFits(MjStages(nb), data_mj, NoMeta) :
          LET t == PipelineTransform(MjStages(nb), data_mj, m.meta)
          IN  IF m.raised \/ t.raised
              THEN failed' = TRUE /\ UNCHANGED <<pc, model_rf, pred_rf>>
              ELSE /\ model_rf' = PipelineModel(m.meta, RandomForestFit(m.df))
                   /\ pred_rf' = ClassifierTransform(RandomForestFit(m.df), t.df)
                   /\ pc' = pc + 1
                   /\ UNCHANGED failed
    /\ UNCHANGED <<nb, court, data, pred, data_mj, train, test, pred_mj, fel, fel_mj,
                   model, model_mj, otherVars>>

(***************************************************************************)
(* The census notebook (pandas).  A table is a bag of rows as above; the   *)
(* cells hold integers.  The loaded table has a row per county, year code  *)
(* and age group; the year codes are those of the data dictionary, 1 to    *)
(* 12, and age group 0 is the total of all ages.                           *)
(***************************************************************************)
MaxCensusRows == 2

YearCodes == 1..12
AgeGroups == {0, 1}

CensusPool ==
    {[SUMLEV |-> 50, COUNTY |-> 1, YEAR |-> y, AGEGRP |-> a, TOT_POP |-> 100 * y + a] :
        y \in YearCodes, a \in AgeGroups}

\* census = pd.read_csv('cc-est2019-alldata-51.csv')
CensusTables == BagsUpTo(CensusPool, MaxCensusRows) \ {EmptyBag}

\* df[mask], mask a boolean column: the rows where the mask is True.
PdSelect(df, mask) == Restrict(df, {r \in DOMAIN df : mask[r]})

\* Mutant: the drop leaves the age-group column in place.
PdDropKeepsAgeGroup(df, cols) ==
    MapRows(df, [r \in DOMAIN df |-> [c \in DOMAIN r \ (cols \ {"AGEGRP"}) |-> r[c]]])

\* Mutant: the drop also removes the population column.
PdDropWithPopulation(df, cols) ==
    MapRows(df, [r \in DOMAIN df |-> [c \in DOMAIN r \ (cols \cup {"TOT_POP"}) |-> r[c]]])

\* df.drop(cols, axis = 1)
PdDrop(df, cols) == MapRows(df, [r \in DOMAIN df |-> [c \in DOMAIN r \ cols |-> r[c]]])

\* Mutant: the second choice repeats the first.
ChoicesRepeated == <<2010, 2010, 2012, 2013, 2014, 2015, 2016, 2017, 2018, 2019>>

\* conditions = [census_clean['YEAR'] == 3, ...] and choices = [2010, ...],
\* as written.
ConditionCodes == <<3, 4, 5, 6, 7, 8, 9, 10, 11, 12>>
Choices == <<2010, 2011, 2012, 2013, 2014, 2015, 2016, 2017, 2018, 2019>>

\* Mutant: the choices start one year late.
NpSelectShifted(conds, choices) ==
    LET hits == {k \in DOMAIN conds : conds[k]}
    IN  IF hits = {} THEN 0
        ELSE choices[CHOOSE k \in hits : \A j \in hits : k <= j] + 1

\* np.select(conditions, choices) on one row: the choice of the first
\* condition that holds, and the default 0 when none does.
NpSelect(conds, choices) ==
    LET hits == {k \in DOMAIN conds : conds[k]}
    IN  IF hits = {} THEN 0
        ELSE choices[CHOOSE k \in hits : \A j \in hits : k <= j]

CensusIdle ==
    /\ census = EmptyBag
    /\ census19 = EmptyBag
    /\ census_clean = EmptyBag

CensusInit ==
    /\ nb = "census"
    /\ pc = 1
    /\ NoFrames
    /\ census \in CensusTables
    /\ census19 = EmptyBag
    /\ census_clean = EmptyBag

\* census19 = census[census['YEAR']==12]
Census19Year ==
    /\ AtCell("census19_year")
    /\ census19' = PdSelect(census, [r \in DOMAIN census |-> r["YEAR"] = 12])
    /\ pc' = pc + 1
    /\ UNCHANGED <<nb, frames, model, model_mj, model_rf, failed,
                   census, census_clean, normVars, schemaVars>>

\* census19 = census19[census19['AGEGRP']==0]
Census19Age ==
    /\ AtCell("census19_age")
    /\ census19' = PdSelect(census19, [r \in DOMAIN census19 |-> r["AGEGRP"] = 0])
    /\ pc' = pc + 1
    /\ UNCHANGED <<nb, frames, model, model_mj, model_rf, failed,
                   census, census_clean, normVars, schemaVars>>

\* census_clean = census[(census['AGEGRP']==0) & (census['YEAR'] >= 3)].copy()
CensusRows ==
    /\ AtCell("census_rows")
    /\ census_clean' =
          PdSelect(census, [r \in DOMAIN census |-> r["AGEGRP"] = 0 /\ r["YEAR"] >= 3])
    /\ pc' = pc + 1
    /\ UNCHANGED <<nb, frames, model, model_mj, model_rf, failed,
                   census, census19, normVars, schemaVars>>

\* census_clean['YEAR'] = np.select(conditions, choices)
RecodeYear ==
    /\ AtCell("recode_year")
    /\ census_clean' =
          MapRows(census_clean,
                  [r \in DOMAIN census_clean |->
                      SetCol(r, "YEAR",
                             NpSelect([k \in DOMAIN ConditionCodes |->
                                          r["YEAR"] = ConditionCodes[k]],
                                      Choices))])
    /\ pc' = pc + 1
    /\ UNCHANGED <<nb, frames, model, model_mj, model_rf, failed,
                   census, census19, normVars, schemaVars>>

\* census_clean = census_clean.drop(['SUMLEV', 'AGEGRP'], axis = 1)
DropColumns ==
    /\ AtCell("drop_columns")
    /\ census_clean' = PdDrop(census_clean, {"SUMLEV", "AGEGRP"})
    /\ pc' = pc + 1
    /\ UNCHANGED <<nb, frames, model, model_mj, model_rf, failed,
                   census, census19, normVars, schemaVars>>

(***************************************************************************)
(* SpecSchema: the loop that builds the explicit schema of the second      *)
(* read.  A StructField is a record of name, dataType, nullable and        *)
(* metadata; its JSON form names the type by a string.                     *)
(***************************************************************************)
MaxFields == 3

\* DataType.jsonValue() / typeName of the types that occur.
TypeName(dt) == IF dt = "DoubleType" THEN "double" ELSE "string"

\* _parse_datatype_json_value of a type name.
ParseType(name) == IF name = "double" THEN "DoubleType" ELSE "StringType"

\* StructField.jsonValue()
FieldToJson(f) ==
    [name |-> f.name, type |-> TypeName(f.dataType),
     nullable |-> f.nullable, metadata |-> f.metadata]

\* Mutant: the rebuilt field is declared not nullable.
FieldFromJsonNotNullable(j) ==
    [name |-> j.name, dataType |-> ParseType(j.type),
     nullable |-> FALSE, metadata |-> j.metadata]

\* StructField.fromJson(f)
FieldFromJson(j) ==
    [name |-> j.name, dataType |-> ParseType(j.type),
     nullable |-> j.nullable, metadata |-> j.metadata]

\* StructField(name, dataType, nullable): no metadata.
StructField(name, dt, nullable) ==
    [name |-> name, dataType |-> dt, nullable |-> nullable, metadata |-> <<>>]

\* The list of names the loop tests f["name"] against.
NumericFields(n) ==
    IF n = "circuit"
    THEN {"SentenceTime", "ProbationTime", "Costs", "FineAmount", "FineCostsPaid"}
    ELSE {"SentenceTime", "ProbationTime", "Fine", "Costs", "FineCostsDue", "FineCostsPaid"}

\* Column names of the court files: some listed by both notebooks, some by
\* one, some by none.
FieldNames == {"Race", "SentenceTime", "Costs", "FineAmount", "Fine", "FinesCostPaid"}

\* The schema of a read with a header and no schema: every column a
\* nullable string, the names distinct, in the order of the header.
InferredSchemas ==
    UNION { {[i \in 1..n |-> StructField(names[i], "StringType", TRUE)] :
                names \in {f \in [1..n -> FieldNames] :
                              \A i, j \in 1..n : i # j => f[i] # f[j]}}
            : n \in 1..MaxFields }

\* The header of the circuit files, as the first read shows it
\* (circuit.take(2)).
CircuitHeader ==
    <<"HearingDate", "HearingResult", "HearingJury", "HearingPlea",
       "HearingType", "HearingRoom", "fips", "Filed", "Commencedby",
       "Locality", "Sex", "Race", "Address", "Charge", "CodeSection",
       "ChargeType", "Class", "OffenseDate", "ArrestDate", "DispositionCode",
       "DispositionDate", "ConcludedBy", "AmendedCharge",
       "AmendedCodeSection", "AmendedChargeType", "JailPenitentiary",
       "ConcurrentConsecutive", "LifeDeath", "SentenceTime",
       "SentenceSuspended", "OperatorLicenseSuspensionTime", "FineAmount",
       "Costs", "FinesCostPaid", "ProgramType", "ProbationType",
       "ProbationTime", "ProbationStarts", "CourtDMVSurrender",
       "DriverImprovementClinic", "DrivingRestrictions",
       "RestrictionEffectiveDate", "RestrictionEndDate",
       "VAAlcoholSafetyAction", "RestitutionPaid", "RestitutionAmount",
       "Military", "TrafficFatality", "AppealedDate", "person_id" >>

\* The schema the first read gives the circuit files.
CircuitSchema == [i \in DOMAIN CircuitHeader |-> StructField(CircuitHeader[i], "StringType", TRUE)]

\* The schemas the first read of a notebook can give: any of the small
\* ones and, in the circuit notebook, the one of its files.
FirstReadSchemas(n) ==
    InferredSchemas \cup (IF n = "circuit" THEN {CircuitSchema} ELSE {})

NoSchema == <<>>

SchemaIdle ==
    /\ inferred = <<>>
    /\ fields = <<>>
    /\ fpos = 0
    /\ schema = NoSchema

\* fields = [] after the first read.
SchemaInit ==
    /\ inferred \in FirstReadSchemas(nb)
    /\ fields = <<>>
    /\ fpos = 1
    /\ schema = NoSchema

\* One turn of `for f in json.loads(circuit.schema.json())["fields"]`.
SchemaLoop ==
    /\ fpos \in DOMAIN inferred
    /\ LET f == FieldToJson(inferred[fpos])
       IN  fields' = Append(fields,
                            IF f.name \in NumericFields(nb)
                            THEN StructField(f.name, "DoubleType", TRUE)
                            ELSE FieldFromJson(f))
    /\ fpos' = fpos + 1
    /\ UNCHANGED <<inferred, schema, pipeVars, normVars, censusVars>>

\* schema = StructType(fields)
SchemaBuild ==
    /\ fpos = Len(inferred) + 1
    /\ schema = NoSchema
    /\ schema' = fields
    /\ UNCHANGED <<inferred, fields, fpos, pipeVars, normVars, censusVars>>

Init ==
    /\ \/ PipeInit /\ CensusIdle
       \/ CensusInit
    /\ NormIdle
    /\ SchemaIdle

Next ==
    \/ CleanRace
    \/ FilterCharge
    \/ LabelFelony
    \/ SplitData
    \/ FitFull
    \/ FilterMj
    \/ SplitMj
    \/ FitMj
    \/ TransformMj
    \/ CrossTabAll
    \/ CrossTabMj
    \/ FitRf
    \/ FitRfMj
    \/ Census19Year
    \/ Census19Age
    \/ CensusRows
    \/ RecodeYear
    \/ DropColumns

Spec == Init /\ [][Next]_vars

InitNorm == PipeIdle /\ NormInit /\ CensusIdle /\ SchemaIdle

NextNorm == NormStep /\ UNCHANGED <<pipeVars, censusVars, schemaVars>>

SpecNorm == InitNorm /\ [][NextNorm]_vars

InitSchema ==
    /\ nb \in Notebooks
    /\ pc = 0
    /\ NoFrames
    /\ NormIdle
    /\ CensusIdle
    /\ SchemaInit

NextSchema ==
    \/ SchemaLoop
    \/ SchemaBuild

SpecSchema == InitSchema /\ [][NextSchema]_vars

(***************************************************************************)
(* SpecCourt: the two court notebooks alone, run from the loaded table to  *)
(* the last cell.                                                          *)
(***************************************************************************)
InitCourt == PipeInit /\ CensusIdle /\ NormIdle /\ SchemaIdle

NextCourt ==
    \/ CleanRace
    \/ FilterCharge
    \/ LabelFelony
    \/ SplitData
    \/ FitFull
    \/ FilterMj
    \/ SplitMj
    \/ FitMj
    \/ TransformMj
    \/ CrossTabAll
    \/ CrossTabMj
    \/ FitRf
    \/ FitRfMj

SpecCourt == InitCourt /\ [][NextCourt]_vars

(***************************************************************************)
(* Vocabulary used in the properties.                                      *)
(***************************************************************************)
\* The cell with this operation has run.
Ran(op) == pc > 1 /\ \E i \in 1..(pc - 1) : Cells(nb)[i].op = op

\* All six substitutions have run.
Cleaned == pc > NumRules /\ Cells(nb)[NumRules] = Cell("clean", NumRules)

\* Number of copies of row r in df.
Copies(df, r) == IF r \in DOMAIN df THEN df[r] ELSE 0

\* A row without the given columns.
Without(r, cols) == [c \in DOMAIN r \ cols |-> r[c]]

\* A dataframe restricted to the given columns.
Project(df, cols) == MapRows(df, [r \in DOMAIN df |-> [c \in cols |-> r[c]]])

\* s occurs in v.
Contains(v, s) ==
    \E i \in 1..(Len(v) - Len(s) + 1) : SubSeq(v, i, i + Len(s) - 1) = s

\* The indexer stages of a pipeline.
IndexerStages(stages) == {stages[i] : i \in {j \in DOMAIN stages : stages[j].kind = "indexer"}}

\* Every predictor of the row has a label in the fitted model.
AllKnown(stages, meta, r) ==
    \A st \in IndexerStages(stages) : r[st.in] # NULL /\ r[st.in] \in Range(meta[st.out])

\* The columns a fitted pipeline adds: those of its stages and those of
\* its classifier.
AddedCols(stages) == {stages[i].out : i \in DOMAIN stages} \cup ClassifierCols

\* The table the k-th stage of a fitted pipeline was fitted on: the input
\* of the fit, less the rows the indexers before it skipped.
FittedOn(stages, k, df, meta) ==
    Restrict(df, {r \in DOMAIN df : AllKnown(SubSeq(stages, 1, k - 1), meta, r)})

\* The pipeline and the table of the latest random-forest fit (model_rf and
\* pred_rf are assigned by both random-forest cells).
RfStages == IF Ran("fit_rf_mj") THEN MjStages(nb) ELSE FullStages(nb)
RfInput == IF Ran("fit_rf_mj") THEN data_mj ELSE data

(***************************************************************************)
(* C1.  In both notebooks a row of the loaded table is in `data` if and    *)
(* only if its charge-type field is exactly 'Misdemeanor' or exactly       *)
(* 'Felony'; rows with any other value, a differently-cased spelling or a  *)
(* NULL are excluded.  (With their copies: data holds as many copies of an *)
(* accepted row as the loaded table does.)                                 *)
(***************************************************************************)
C1_FilterKeepsExactlyAcceptedLabels ==
    Ran("filter") =>
        LET kept == Project(data, DOMAIN (CHOOSE r \in DOMAIN court : TRUE))
        IN  /\ DOMAIN kept \subseteq DOMAIN court
            /\ \A r \in DOMAIN court :
                  Copies(kept, r) =
                      IF r[ChargeTypeCol(nb)] = "Misdemeanor" \/ r[ChargeTypeCol(nb)] = "Felony"
                      THEN court[r] ELSE 0

C1_Witness ==
    /\ Ran("filter")
    /\ \E r \in DOMAIN court : r[ChargeTypeCol(nb)] = "felony"
    /\ \E r \in DOMAIN court : r[ChargeTypeCol(nb)] = NULL
    /\ \E r \in DOMAIN data : r[ChargeTypeCol(nb)] = "Felony"
    /\ nb = "district"

(***************************************************************************)
(* C2.  Every row of `data` carries the label Felony = 1 when its charge   *)
(* type is 'Felony' and 0 when it is 'Misdemeanor'; a 'Dismissed' row is   *)
(* neither in `data` nor in the input of any model fit.                    *)
(***************************************************************************)
C2_LabelAndDismissedExcluded ==
    /\ Ran("label") =>
          \A r \in DOMAIN data :
              /\ r[ChargeTypeCol(nb)] = "Felony" => r["Felony"] = 1
              /\ r[ChargeTypeCol(nb)] = "Misdemeanor" => r["Felony"] = 0
              /\ r["Felony"] \in {0, 1}
    /\ \A df \in {data, data_mj, train, test, pred, pred_mj} :
          \A r \in DOMAIN df : r[ChargeTypeCol(nb)] # "Dismissed"

C2_Witness ==
    /\ Ran("fit_mj")
    /\ \E r \in DOMAIN court : r[ChargeTypeCol(nb)] = "Dismissed"
    /\ \E r \in DOMAIN data : r[ChargeTypeCol(nb)] = "Felony" /\ r["Felony"] = 1
    /\ \E r \in DOMAIN data : r[ChargeTypeCol(nb)] = "Misdemeanor" /\ r["Felony"] = 0

(***************************************************************************)
(* C3.  For every pipeline, a row of the table being transformed appears   *)
(* in the encoded output if and only if every categorical predictor of the *)
(* pipeline holds, in that row, a value of the vocabulary learned at fit;  *)
(* the number of encoded rows is the number of input rows minus the number *)
(* of rows with an out-of-vocabulary or missing predictor value.           *)
(***************************************************************************)
EncodedExactlyKnownRows(stages, meta, in, out) ==
    LET back == MapRows(out, [r \in DOMAIN out |-> Without(r, AddedCols(stages))])
    IN  /\ \A r \in DOMAIN in :
              Copies(back, r) = IF AllKnown(stages, meta, r) THEN in[r] ELSE 0
        /\ DOMAIN back \subseteq DOMAIN in
        /\ NumRows(out) = NumRows(in) - CountWhere(in, {r \in DOMAIN in : ~AllKnown(stages, meta, r)})

C3_EncodedIffInVocabulary ==
    /\ Ran("fit") => EncodedExactlyKnownRows(FullStages(nb), model, data, pred)
    /\ Ran("transform_mj") =>
          EncodedExactlyKnownRows(MjStages(nb), model_mj, MjTransformInput, pred_mj)
    /\ Ran("fit_rf") => EncodedExactlyKnownRows(RfStages, model_rf, RfInput, pred_rf)

\* A test row whose race was not seen in train is missing from pred_mj.
C3_Witness ==
    /\ Ran("transform_mj")
    /\ nb = "circuit"
    /\ \E r \in DOMAIN test :
          /\ r["RaceClean"] # NULL
          /\ r["RaceClean"] \notin Range(model_mj["RaceInd"])
          /\ r[SexCol(nb)] \in Range(model_mj["GendInd"])
    /\ NumRows(pred_mj) < NumRows(test)
    /\ NumRows(pred_mj) > 0

C5_NormalizerExamples ==
    nStep = NumRules =>
        /\ nIn = "White Caucasian(Non-Hispanic)" => nCur = "White"
        /\ nIn = "Black(Non-Hispanic)" => nCur = "Black"
        /\ nIn = "Asian Or Pacific Islander" => nCur = "Asian or Pacific Islander"

C5_Witness ==
    nStep = NumRules /\ nIn = "White Caucasian(Non-Hispanic)" /\ nCur = "White"

(***************************************************************************)
(* C6.  Applying the normalizer to an already normalized value changes     *)
(* nothing, for each input of the example set: after every further full    *)
(* pass the value is the one the first pass produced.                      *)
(***************************************************************************)
ExampleSet ==
    {"White Caucasian(Non-Hispanic)", "Black(Non-Hispanic)", "Asian Or Pacific Islander"}

C6_NormalizerIdempotentOnExamples ==
    (nIn \in ExampleSet /\ nStep > NumRules /\ nStep % NumRules = 0) => nCur = nOut1

C6_Witness ==
    /\ nStep = 2 * NumRules
    /\ nIn = "Asian Or Pacific Islander"
    /\ nOut1 = "Asian or Pacific Islander"
    /\ nCur = nOut1

(***************************************************************************)
(* C7.  The normalizer returns its input unchanged when the input contains *)
(* none of '(Non-Hispanic)', ' Caucasian', 'Asian Or',                     *)
(* '(Includes Not Applicable, Unknown)' and 'Other'; the empty string      *)
(* stays the empty string and a missing value stays missing.               *)
(***************************************************************************)
RuleSubstrings ==
    {"(Non-Hispanic)", " Caucasian", "Asian Or",
     "(Includes Not Applicable, Unknown)", "Other"}

NoRuleMatches(v) == v = NULL \/ \A s \in RuleSubstrings : ~Contains(v, s)

C7_NormalizerUnchangedWithoutMatch ==
    (nStep = NumRules /\ NoRuleMatches(nIn)) => nCur = nIn

C7_Witness == nStep = NumRules /\ nIn = NULL /\ nCur = NULL

(***************************************************************************)
(* C8.  For every raw race value, RaceClean is a member of the closed      *)
(* category set {White, Black, Hispanic, Unknown, Asian or Pacific         *)
(* Islander, American Indian, American Indian or ...} or is missing; no    *)
(* other category string reaches indexing, encoding or the cross-tab.      *)
(***************************************************************************)
InClosedCategorySet(v) ==
    \/ v \in {"White", "Black", "Hispanic", "Unknown",
              "Asian or Pacific Islander", "American Indian"}
    \/ (Len(v) > 19 /\ SubSeq(v, 1, 19) = "American Indian or ")

C8_ClosedCategorySet ==
    /\ Cleaned => \A r \in DOMAIN court :
          r["RaceClean"] = NULL \/ InClosedCategorySet(r["RaceClean"])
    /\ Ran("fit") => \A i \in DOMAIN model["RaceInd"] :
          InClosedCategorySet(model["RaceInd"][i])
    /\ Ran("crosstab") => \A k \in DOMAIN fel : k = NULL \/ InClosedCategorySet(k)

(***************************************************************************)
(* C9.  The normalizer does not trim: a raw value with a space before the  *)
(* removed '(Non-Hispanic)' / ' Caucasian' text normalizes to a value with *)
(* a trailing space ('White '), and that value is indexed, one-hot encoded *)
(* and grouped as a category distinct from 'White'.                        *)
(***************************************************************************)
C9_TrailingSpaceCategoryIsDistinct ==
    /\ Cleaned => \A r \in DOMAIN court :
          /\ r["Race"] = "White Caucasian (Non-Hispanic)" => r["RaceClean"] = "White "
          /\ r["Race"] = "White Caucasian(Non-Hispanic)" => r["RaceClean"] = "White"
    /\ Ran("fit") => \A r, q \in DOMAIN pred :
          (r["Race"] = "White Caucasian (Non-Hispanic)" /\ q["Race"] = "White Caucasian(Non-Hispanic)")
              => /\ r["RaceInd"] # q["RaceInd"]
                 /\ r["RaceOH"] # q["RaceOH"]
                 /\ model["RaceInd"][r["RaceInd"] + 1] = "White "
                 /\ model["RaceInd"][q["RaceInd"] + 1] = "White"
    /\ Ran("crosstab") =>
          \A v \in {"White ", "White"} :
              (\E r \in DOMAIN data : r["RaceClean"] = v) =>
                  /\ v \in DOMAIN fel
                  /\ fel[v].count = CountWhere(data, {r \in DOMAIN data : r["RaceClean"] = v})

C9_Witness ==
    /\ Ran("crosstab")
    /\ {"White ", "White"} \subseteq DOMAIN fel
    /\ {"White ", "White"} \subseteq Range(model["RaceInd"])
    /\ \E r \in DOMAIN pred : r["RaceClean"] = "White "
    /\ \E r \in DOMAIN pred : r["RaceClean"] = "White"

(***************************************************************************)
(* C10.  For each categorical predictor column the indexer assigns the     *)
(* indices 0, 1, 2, ... to the distinct observed values in order of        *)
(* descending frequency in the table it is fitted on, so that feature      *)
(* position i of the column's block belongs to the (i+1)-th most frequent  *)
(* value.                                                                  *)
(***************************************************************************)
IndexedByDescendingFrequency(stages, meta, fitIn, out) ==
    \A k \in DOMAIN stages :
        stages[k].kind = "indexer" =>
            LET st == stages[k]
                labels == meta[st.out]
                tbl == FittedOn(stages, k, fitIn, meta)
                oh == stages[k + 1].out
            IN  /\ Range(labels) = Observed(tbl, st.in)
                /\ \A i, j \in DOMAIN labels : i # j => labels[i] # labels[j]
                /\ \A i, j \in DOMAIN labels :
                      i < j => Freq(tbl, st.in, labels[i]) >= Freq(tbl, st.in, labels[j])
                /\ \A i \in DOMAIN meta[oh] : meta[oh][i] = oh \o "_" \o labels[i]
                /\ \A r \in DOMAIN out :
                      /\ labels[r[st.out] + 1] = r[st.in]
                      /\ \A i \in DOMAIN r[oh] : r[oh][i] = 1 => labels[i] = r[st.in]

C10_IndicesByDescendingFrequency ==
    /\ Ran("fit") => IndexedByDescendingFrequency(FullStages(nb), model, data, pred)
    /\ Ran("transform_mj") =>
          IndexedByDescendingFrequency(MjStages(nb), model_mj, MjFitInput, pred_mj)
    /\ Ran("fit_rf") => IndexedByDescendingFrequency(RfStages, model_rf, RfInput, pred_rf)

C10_Witness ==
    /\ Ran("fit")
    /\ Len(model["RaceInd"]) >= 2
    /\ Freq(data, "RaceClean", model["RaceInd"][1]) > Freq(data, "RaceClean", model["RaceInd"][2])
    /\ \E r \in DOMAIN pred : r["RaceInd"] = 0 /\ r["RaceOH"] = <<1>>

(***************************************************************************)
(* C11.  One-hot encoding maps each distinct category value of a predictor *)
(* column seen at fit time to its own unit-indicator position: for every   *)
(* surviving row, the block of that column contains exactly one 1, at the  *)
(* position of the row's category, and 0 elsewhere.                        *)
(***************************************************************************)
\* The pairs <<indexer stage, block column>> of a pipeline.
Blocks(stages) ==
    {<<stages[k], stages[k + 1].out>> : k \in {j \in DOMAIN stages : stages[j].kind = "indexer"}}

ExactlyOneIndicator(stages, meta, out) ==
    \A b \in Blocks(stages) : \A r \in DOMAIN out :
        LET labels == meta[b[1].out]
            oh == r[b[2]]
        IN  \E i \in DOMAIN oh :
                /\ oh[i] = 1
                /\ labels[i] = r[b[1].in]
                /\ \A j \in DOMAIN oh \ {i} : oh[j] = 0

C11_ExactlyOneIndicatorPerBlock ==
    /\ Ran("fit") => ExactlyOneIndicator(FullStages(nb), model, pred)
    /\ Ran("transform_mj") => ExactlyOneIndicator(MjStages(nb), model_mj, pred_mj)
    /\ Ran("fit_rf") => ExactlyOneIndicator(RfStages, model_rf, pred_rf)

(***************************************************************************)
(* C11, amended.  Each category seen at fit time except the last-indexed   *)
(* (least frequent) one has its own unit-indicator position: the block of  *)
(* a column has one position per category but the last, position i holds 1 *)
(* exactly when the row's category is the i-th label, and a row of the     *)
(* last category has an all-zero block.                                    *)
(***************************************************************************)
IndicatorForAllButLast(stages, meta, out) ==
    \A b \in Blocks(stages) : \A r \in DOMAIN out :
        LET labels == meta[b[1].out]
            oh == r[b[2]]
        IN  /\ DOMAIN oh = 1..(Len(labels) - 1)
            /\ \A i \in DOMAIN oh : oh[i] = IF labels[i] = r[b[1].in] THEN 1 ELSE 0
            /\ r[b[1].in] = labels[Len(labels)] => \A i \in DOMAIN oh : oh[i] = 0
            /\ r[b[1].in] # labels[Len(labels)] =>
                  Cardinality({i \in DOMAIN oh : oh[i] = 1}) = 1

C11_IndicatorForAllButLastCategory ==
    /\ Ran("fit") => IndicatorForAllButLast(FullStages(nb), model, pred)
    /\ Ran("transform_mj") => IndicatorForAllButLast(MjStages(nb), model_mj, pred_mj)
    /\ Ran("fit_rf") => IndicatorForAllButLast(RfStages, model_rf, pred_rf)

\* Three race categories: a row of the first, and a row of the last whose
\* block is all zero.
C11_Witness ==
    /\ Ran("fit")
    /\ Len(model["RaceInd"]) = 3
    /\ \E r \in DOMAIN pred : r["RaceInd"] = 0 /\ r["RaceOH"] = <<1, 0>>
    /\ \E r \in DOMAIN pred : r["RaceInd"] = 2 /\ r["RaceOH"] = <<0, 0>>

(***************************************************************************)
(* C12.  The feature vector of every row is the concatenation of the       *)
(* one-hot blocks in the fixed order given to the assembler (race, then    *)
(* charge code, then jurisdiction where used, then sex), independent of    *)
(* the order in which the indexer and encoder stages run in the pipeline:  *)
(* sex is indexed first but its indicator occupies the last position of    *)
(* the vector (and of the list of feature names).                          *)
(***************************************************************************)
\* The blocks a pipeline has, in the order race, charge, jurisdiction, sex.
WrittenOrder(stages) ==
    IF "FipsOH" \in AddedCols(stages)
    THEN <<"RaceOH", "ChargeCodeOH", "FipsOH", "GenderOH">>
    ELSE IF "ChargeCodeOH" \in AddedCols(stages)
    THEN <<"RaceOH", "ChargeCodeOH", "GenderOH">>
    ELSE <<"RaceOH", "GenderOH">>

Suffix(v, n) == SubSeq(v, Len(v) - n + 1, Len(v))

ConcatenatedInWrittenOrder(stages, meta, out) ==
    /\ stages[1].out = "GendInd"
    /\ Suffix(meta["features"], Len(meta["GenderOH"])) = meta["GenderOH"]
    /\ \A r \in DOMAIN out :
          /\ r["features"] = Concat(WrittenOrder(stages), r)
          /\ Suffix(r["features"], Len(r["GenderOH"])) = r["GenderOH"]
          /\ SubSeq(r["features"], 1, Len(r["RaceOH"])) = r["RaceOH"]

C12_FeaturesInAssemblerOrder ==
    /\ Ran("fit") => ConcatenatedInWrittenOrder(FullStages(nb), model, pred)
    /\ Ran("transform_mj") => ConcatenatedInWrittenOrder(MjStages(nb), model_mj, pred_mj)
    /\ Ran("fit_rf") => ConcatenatedInWrittenOrder(RfStages, model_rf, pred_rf)

\* A row whose race block and sex block differ: the race block comes first.
C12_Witness ==
    /\ Ran("fit")
    /\ nb = "circuit"
    /\ model["features"] = <<"RaceOH_White ", "GenderOH_Male">>
    /\ \E r \in DOMAIN pred :
          r["RaceOH"] = <<0>> /\ r["GenderOH"] = <<1>> /\ r["features"] = <<0, 1>>

(***************************************************************************)
(* C13.  For every fitted model, the coefficient vector (logistic          *)
(* regression) or importance vector (random forest) has exactly one entry  *)
(* per feature-vector dimension, and entry i belongs to the feature whose  *)
(* metadata entry has idx = i: the list of metadata names is as long as    *)
(* the vector, and the name at a position is the name of the category      *)
(* whose indicator the feature vectors hold at that position.              *)
(***************************************************************************)
NamesMatchDimensions(stages, fitted, out) ==
    LET names == fitted["features"]
        clf == fitted["classifier"]
    IN  /\ clf.trainedOn > 0 => clf.numFeatures = Len(names)
        /\ \A i, j \in DOMAIN names : i # j => names[i] # names[j]
        /\ \A r \in DOMAIN out :
              /\ Len(r["features"]) = Len(names)
              /\ \A i \in DOMAIN names :
                    r["features"][i] = 1 <=>
                        \E b \in Blocks(stages) : names[i] = b[2] \o "_" \o r[b[1].in]

C13_VectorEntriesMatchFeatureNames ==
    /\ Ran("fit") => NamesMatchDimensions(FullStages(nb), model, pred)
    /\ Ran("transform_mj") => NamesMatchDimensions(MjStages(nb), model_mj, pred_mj)
    /\ Ran("fit_rf") => NamesMatchDimensions(RfStages, model_rf, pred_rf)

\* The random forest of the district notebook on race and sex: two
\* importances, two names.
C13_Witness ==
    /\ Ran("fit_rf_mj")
    /\ nb = "district"
    /\ model_rf["classifier"].numFeatures = 2
    /\ model_rf["features"] = <<"RaceOH_White ", "GenderOH_Male">>
    /\ \E r \in DOMAIN pred_rf : r["features"] = <<1, 0>> /\ r["Gender"] = "Female"

(***************************************************************************)
(* C14.  Every logistic regression in the notebooks is fit with an L1      *)
(* (lasso) penalty, the elastic-net mixing parameter being fixed at its    *)
(* maximum (1, pure lasso): the objective that is minimised contains an L1 *)
(* term on the coefficients (a term of positive weight) and no L2 term.    *)
(***************************************************************************)
HasLassoPenalty(fitted) ==
    /\ fitted["classifier"].kind = "logistic"
    /\ ElasticNetParam = 1
    /\ fitted["classifier"].l1 > 0
    /\ fitted["classifier"].l2 = 0

C14_ObjectiveHasLassoTerm ==
    /\ Ran("fit") => HasLassoPenalty(model)
    /\ Ran("fit_mj") => HasLassoPenalty(model_mj)

(***************************************************************************)
(* C15.  The reported metrics (area under ROC, precision, recall,          *)
(* accuracy) are computed over the same rows the model was fit on, except  *)
(* for the circuit marijuana logistic model, for which a train/test split  *)
(* was created and used, whose reported metrics are computed over the      *)
(* held-out rows (the encoded rows of test).                               *)
(***************************************************************************)
\* The rows of a table that a fitted pipeline encodes, without the columns
\* the pipeline adds.
Survivors(stages, fitted, df) ==
    Restrict(df, {r \in DOMAIN df : AllKnown(stages, fitted, r)})

\* The rows a summary is computed on, without the columns the pipeline adds.
SummaryRows(stages, fitted) ==
    MapRows(fitted["classifier"].summary,
            [r \in DOMAIN fitted["classifier"].summary |-> Without(r, AddedCols(stages))])

C15_MetricsOverFitRowsOrHeldOut ==
    /\ Ran("fit") =>
          SummaryRows(FullStages(nb), model) = Survivors(FullStages(nb), model, data)
    /\ (Ran("fit_mj") /\ nb = "district") =>
          SummaryRows(MjStages(nb), model_mj) = Survivors(MjStages(nb), model_mj, data_mj)
    /\ (Ran("fit_mj") /\ nb = "circuit") =>
          SummaryRows(MjStages(nb), model_mj) = Survivors(MjStages(nb), model_mj, test)

(***************************************************************************)
(* C16.  The cross-tab reports, for each group of the labeled table by     *)
(* normalized race, count, n_felonies (sum of the label) and percent =     *)
(* n_felonies / count; when a group's count is 0 (the group whose key is   *)
(* missing) percent is undefined (null) and the computation completes      *)
(* without error.                                                          *)
(***************************************************************************)
\* The table the marijuana cross-tab groups.
MjRows == Restrict(data, {r \in DOMAIN data : r["CodeSection"] = MjCode})

ReportsGroups(tab, df) ==
    /\ DOMAIN tab = {r["RaceClean"] : r \in DOMAIN df}
    /\ \A k \in DOMAIN tab :
          LET members == {r \in DOMAIN df : r["RaceClean"] = k}
          IN  /\ tab[k].count = IF k = NULL THEN 0 ELSE CountWhere(df, members)
              /\ tab[k].n_felonies = CountWhere(df, {r \in members : r["Felony"] = 1})
              /\ tab[k].count = 0 <=> k = NULL
              /\ IF tab[k].count = 0
                 THEN tab[k].percent = NULL
                 ELSE tab[k].percent = <<tab[k].n_felonies, tab[k].count>>

C16_CrossTabCountsAndNullPercent ==
    /\ Ran("crosstab") => ReportsGroups(fel, data) /\ ~failed
    /\ Ran("crosstab_mj") => ReportsGroups(fel_mj, MjRows) /\ ~failed

\* A felony row without a race beside two rows of one race.
C16_Witness ==
    /\ Ran("crosstab_mj")
    /\ NULL \in DOMAIN fel
    /\ fel[NULL] = [count |-> 0, n_felonies |-> 1, percent |-> NULL]
    /\ \E k \in DOMAIN fel \ {NULL} : fel[k].count = 2 /\ fel[k].percent = <<2, 2>>
    /\ NULL \in DOMAIN fel_mj

(***************************************************************************)
(* C17.  When the table that is grouped has zero rows for a race category  *)
(* under the charge filter in force (e.g. 'American Indian' under          *)
(* CodeSection = '18.2-248.1'), the cross-tab reports that category with   *)
(* count = 0 and an undefined (null) rate.                                 *)
(***************************************************************************)
\* The race categories of a table.
Categories(df) == {r["RaceClean"] : r \in DOMAIN df} \ {NULL}

C17_EmptyCategoryReportedWithZero ==
    Ran("crosstab_mj") =>
        \A k \in Categories(data) \ Categories(MjRows) :
            /\ k \in DOMAIN fel_mj
            /\ fel_mj[k].count = 0
            /\ fel_mj[k].percent = NULL

(***************************************************************************)
(* C17, amended.  When the table that is grouped has zero rows for a race  *)
(* category under the charge filter in force, the cross-tab has no row for *)
(* that category; the only group it can report with count = 0 and an       *)
(* undefined (null) rate is the group of the rows whose race is missing.   *)
(***************************************************************************)
C17_EmptyCategoryNotReported ==
    /\ Ran("crosstab_mj") =>
          /\ \A k \in Categories(data) \ Categories(MjRows) : k \notin DOMAIN fel_mj
          /\ \A k \in DOMAIN fel_mj :
                (fel_mj[k].count = 0 \/ fel_mj[k].percent = NULL) <=> k = NULL
    /\ Ran("crosstab") =>
          /\ \A k \in Categories(court) \ Categories(data) : k \notin DOMAIN fel
          /\ \A k \in DOMAIN fel : (fel[k].count = 0 \/ fel[k].percent = NULL) <=> k = NULL

\* 'White ' has rows in data but none under the marijuana filter, and the
\* marijuana cross-tab has the group of the missing race.
C17_Witness ==
    /\ Ran("crosstab_mj")
    /\ "White " \in Categories(data) \ Categories(MjRows)
    /\ "White " \in DOMAIN fel
    /\ DOMAIN fel_mj = {NULL}
    /\ fel_mj[NULL].count = 0

(***************************************************************************)
(* C18.  The cleaned census table contains exactly the rows of the loaded  *)
(* census table with AGEGRP = 0 and YEAR >= 3 (the July estimates), and in *)
(* each of them the YEAR code is replaced by its calendar year: 3 becomes  *)
(* 2010, 4 becomes 2011, and so on up to 12 becoming 2019 (code + 2007);   *)
(* the census/base codes 1 and 2 never reach the output.                   *)
(***************************************************************************)
\* The July estimates for all ages among the loaded rows.
JulyTotals == Restrict(census, {r \in DOMAIN census : r["AGEGRP"] = 0 /\ r["YEAR"] >= 3})

\* A retained row as the cleaned table must hold it: the year in place of
\* the code and, once the two columns are dropped, without them.
CleanedRow(r) ==
    LET y == SetCol(r, "YEAR", r["YEAR"] + 2007)
    IN  IF Ran("drop_columns") THEN Without(y, {"SUMLEV", "AGEGRP"}) ELSE y

C18_CleanedCensusRowsAndYears ==
    /\ (Ran("census_rows") /\ ~Ran("recode_year")) => census_clean = JulyTotals
    /\ Ran("recode_year") =>
          /\ census_clean = MapRows(JulyTotals, [r \in DOMAIN JulyTotals |-> CleanedRow(r)])
          /\ \A r \in DOMAIN census_clean : r["YEAR"] \in 2010..2019
          /\ \A r \in DOMAIN JulyTotals :
                /\ r["YEAR"] = 3 => CleanedRow(r)["YEAR"] = 2010
                /\ r["YEAR"] = 4 => CleanedRow(r)["YEAR"] = 2011
                /\ r["YEAR"] = 12 => CleanedRow(r)["YEAR"] = 2019
          /\ NumRows(census_clean) = NumRows(JulyTotals)

\* A census-base row (code 1) and a 2019 estimate are loaded; only the
\* estimate is in the cleaned table, under the year 2019.
C18_Witness ==
    /\ nb = "census"
    /\ Finished
    /\ \E r \in DOMAIN census : r["YEAR"] = 1 /\ r["AGEGRP"] = 0
    /\ \E r \in DOMAIN census : r["YEAR"] = 12 /\ r["AGEGRP"] = 0
    /\ NumRows(census_clean) = 1
    /\ \E r \in DOMAIN census_clean : r["YEAR"] = 2019

(***************************************************************************)
(* C20.  The explicit schema built for the second read has the same column *)
(* names in the same order as the schema inferred by the first read; a     *)
(* column is declared as nullable double exactly when its name is in the   *)
(* notebook's fixed list of time/amount fields, and every other column     *)
(* keeps its inferred definition unchanged.                                *)
(***************************************************************************)
\* The first n fields of a list are the explicit forms of the first n
\* inferred fields.
ExplicitUpTo(list, n) ==
    /\ Len(list) = n
    /\ \A i \in 1..n :
          /\ list[i].name = inferred[i].name
          /\ list[i].dataType = "DoubleType" <=> inferred[i].name \in NumericFields(nb)
          /\ inferred[i].name \in NumericFields(nb) =>
                list[i].nullable /\ list[i].dataType = "DoubleType"
          /\ inferred[i].name \notin NumericFields(nb) => list[i] = inferred[i]

C20_ExplicitSchemaMatchesInferred ==
    /\ fpos >= 1 => ExplicitUpTo(fields, fpos - 1)
    /\ schema # NoSchema => ExplicitUpTo(schema, Len(inferred))

\* The circuit schema for the header FineAmount, Fine, FinesCostPaid: the
\* first is listed, the other two are not.
C20_Witness ==
    /\ nb = "circuit"
    /\ Len(schema) = 3
    /\ schema[1] = StructField("FineAmount", "DoubleType", TRUE)
    /\ schema[2] = StructField("Fine", "StringType", TRUE)
    /\ schema[3] = StructField("FinesCostPaid", "StringType", TRUE)

(***************************************************************************)
(* C19.  Once a table has been created, no later step changes the value of *)
(* any of its existing columns: across all notebooks the only change ever  *)
(* made to an existing table is the append of a new derived column (the    *)
(* label column).  The tables that a step derives from themselves are      *)
(* circuit/district, data, census19 and census_clean; census, data_mj,     *)
(* pred and pred_mj are assigned once.                                     *)
(***************************************************************************)
\* The columns of a table.
Cols(df) == IF df = EmptyBag THEN {} ELSE DOMAIN (CHOOSE r \in DOMAIN df : TRUE)

\* new is old with columns appended: same rows, same values in the columns
\* old has.
AppendsTo(old, new) ==
    /\ Cols(old) \subseteq Cols(new)
    /\ Project(new, Cols(old)) = old

\* old and new agree outside the given columns.
AgreeOutside(old, new, cols) ==
    Project(new, Cols(new) \ cols) = Project(old, Cols(new) \ cols)

AssignedOnce ==
    /\ census # EmptyBag => census' = census
    /\ data_mj # EmptyBag => data_mj' = data_mj
    /\ pred # EmptyBag => pred' = pred
    /\ pred_mj # EmptyBag => pred_mj' = pred_mj

SamePairSamePrediction(out) ==
    \A r, q \in DOMAIN out :
        (r["RaceClean"] = q["RaceClean"] /\ r[SexCol(nb)] = q[SexCol(nb)])
            => \A c \in ClassifierCols : r[c] = q[c]

\* C21: in the table of predictions of the marijuana model, any two rows
\* with the same RaceClean and the same sex have the same predicted
\* probability and the same predicted class, whatever their other columns.
C21_MjPredictionDependsOnRaceAndSexOnly ==
    Ran("transform_mj") => SamePairSamePrediction(pred_mj)

\* Two rows of pred_mj that differ outside (RaceClean, sex) and share their
\* prediction, next to a row of another race with another prediction.
C21_Witness ==
    /\ Ran("transform_mj")
    /\ \E r, q, o \in DOMAIN pred_mj :
          /\ r # q
          /\ r["RaceClean"] = q["RaceClean"] /\ r[SexCol(nb)] = q[SexCol(nb)]
          /\ r[ChargeTypeCol(nb)] # q[ChargeTypeCol(nb)]
          /\ r["probability"] = q["probability"]
          /\ o["RaceClean"] # r["RaceClean"]
          /\ o["probability"] # r["probability"]



(***************************************************************************)
(* C22.  The six coefficients the notebooks print for the full model are   *)
(* those at the indices 0 to 5 of the feature vector.                      *)
(***************************************************************************)
\* print(model.stages[-1].coefficients[0]) ... coefficients[5]
PrintedIndices == 0..5

\* The (zero-based) indices of the feature vector that hold a race
\* indicator: the positions of the attribute names of RaceOH.
RaceIndices(fitted) ==
    {i - 1 : i \in {j \in DOMAIN fitted["features"] :
                      fitted["features"][j] \in Range(fitted["RaceOH"])}}

FitOnAndAppliedTo(stages, fitted, out, df) ==
    LET back == MapRows(out, [r \in DOMAIN out |-> Without(r, AddedCols(stages))])
    IN  /\ fitted["classifier"].trainedOn = NumRows(Survivors(stages, fitted, df))
        /\ back = Survivors(stages, fitted, df)
        /\ Range(fitted[stages[1].out]) = Observed(df, stages[1].in) \ {NULL}
        /\ \A st \in IndexerStages(stages) :
              Range(fitted[st.out]) \subseteq Observed(df, st.in)

\* C23: in the circuit notebook, the full logistic model and the full
\* random forest are fitted on every row of data that the skip policy
\* keeps and their predictions cover exactly those rows, whatever train and
\* test the split before the fit has produced.
C23_FullModelsUseAllOfData ==
    nb = "circuit" =>
        /\ Ran("fit") =>
              /\ FitOnAndAppliedTo(FullStages(nb), model, pred, data)
              /\ SummaryRows(FullStages(nb), model) = Survivors(FullStages(nb), model, data)
        /\ (Ran("fit_rf") /\ ~Ran("fit_rf_mj")) =>
              FitOnAndAppliedTo(FullStages(nb), model_rf, pred_rf, data)

\* The split has put rows on both sides, and the predictions cover all of
\* data all the same.
C23_Witness ==
    /\ nb = "circuit"
    /\ Ran("fit") /\ ~Ran("split_mj")
    /\ train # EmptyBag /\ test # EmptyBag
    /\ NumRows(pred) = NumRows(data)
    /\ model["classifier"].trainedOn = NumRows(train) + NumRows(test)



(***************************************************************************)
(* C24.  The census cleaning removes the columns SUMLEV and AGEGRP and no  *)
(* other; the other columns of a retained row keep their values (YEAR is   *)
(* recoded); census and census19 are not changed by the steps that build   *)
(* census_clean.                                                           *)
(***************************************************************************)
\* The steps that build census_clean.
CleaningSteps == {"census_rows", "recode_year", "drop_columns"}

\* The columns of the cleaned table that are neither removed nor recoded.
KeptAsIs == Cols(census) \ {"SUMLEV", "AGEGRP", "YEAR"}

\* C24: when the census notebook has finished, the columns of census_clean
\* are those of census less SUMLEV and AGEGRP, and on the columns other
\* than YEAR its rows are the retained rows of census; no step that builds
\* census_clean changes census or census19.
C24_CensusCleaningFrame ==
    /\ []((nb = "census" /\ Ran("drop_columns")) =>
            /\ \A r \in DOMAIN census_clean :
                  DOMAIN r = Cols(census) \ {"SUMLEV", "AGEGRP"}
            /\ Project(census_clean, KeptAsIs) = Project(JulyTotals, KeptAsIs))
    /\ [][(nb = "census" /\ pc \in DOMAIN Cells(nb) /\ Cells(nb)[pc].op \in CleaningSteps)
             => (census' = census /\ census19' = census19)]_vars

\* A finished cleaning of a table with a retained and a discarded row, and
\* a non-empty census19 next to it.
C24_Witness ==
    /\ nb = "census" /\ Ran("drop_columns")
    /\ census_clean # EmptyBag
    /\ census19 # EmptyBag
    /\ NumRows(census_clean) < NumRows(census)
    /\ \E r \in DOMAIN census_clean : r["TOT_POP"] = 100 * (r["YEAR"] - 2007)



(***************************************************************************)
(* C25.  For every group a cross-tab reports, 0 <= n_felonies <= count.    *)
(***************************************************************************)
FeloniesWithinCount(tab) ==
    \A k \in DOMAIN tab : 0 <= tab[k].n_felonies /\ tab[k].n_felonies <= tab[k].count

\* C25 as stated: in every group of either cross-tab the number of felony
\* rows is between 0 and the count of the group.
C25_FeloniesNeverExceedCount ==
    /\ Ran("crosstab") => FeloniesWithinCount(fel)
    /\ Ran("crosstab_mj") => FeloniesWithinCount(fel_mj)

FeloniesWithinCountOfKeyedGroups(tab) ==
    \A k \in DOMAIN tab :
        /\ 0 <= tab[k].n_felonies
        /\ IF k = NULL
           THEN tab[k].count = 0
           ELSE tab[k].count > 0 /\ tab[k].n_felonies <= tab[k].count
        /\ tab[k].percent = Divide(tab[k].n_felonies, tab[k].count)

\* C25 amended: in every group with a non-missing key the number of felony
\* rows is between 0 and the count of the group, which is positive, so the
\* percent is defined and between 0 and 1; the group of the missing key has
\* count 0, whatever its number of felony rows, and an undefined percent.
C25_FeloniesWithinCountUnlessKeyMissing ==
    /\ Ran("crosstab") => FeloniesWithinCountOfKeyedGroups(fel)
    /\ Ran("crosstab_mj") => FeloniesWithinCountOfKeyedGroups(fel_mj)

\* A cross-tab with a felony row under the missing key (n_felonies above
\* the count 0) next to a keyed group with fewer felonies than rows.
C25_Witness ==
    /\ Ran("crosstab")
    /\ NULL \in DOMAIN fel
    /\ fel[NULL].n_felonies > fel[NULL].count
    /\ \E k \in DOMAIN fel \ {NULL} :
          fel[k].n_felonies > 0 /\ fel[k].n_felonies < fel[k].count



(***************************************************************************)
(* C26.  The cross-tab of data counts every row a model on data is fitted  *)
(* on, in a group with a key, and its counts add up to the number of rows  *)
(* of data that have a normalized race.                                    *)
(***************************************************************************)
RECURSIVE TotalCount(_, _)
\* The sum of the count column over the groups K of a cross-tab.
TotalCount(tab, K) ==
    IF K = {} THEN 0
    ELSE LET k == CHOOSE x \in K : TRUE
         IN  tab[k].count + TotalCount(tab, K \ {k})

\* Every row of used (rows of data, without added columns) has a race, and
\* its group counts at least as many rows as used holds of that race.
CountedInCrossTab(used, tab) ==
    \A r \in DOMAIN used :
        /\ r["RaceClean"] # NULL
        /\ r["RaceClean"] \in DOMAIN tab
        /\ CountWhere(used, {q \in DOMAIN used : q["RaceClean"] = r["RaceClean"]})
              <= tab[r["RaceClean"]].count

\* C26: once the cross-tab of data is made, every row the full logistic
\* model (and the full random forest) was fitted on is counted in a group
\* with a non-missing key, and the counts of the cross-tab add up to the
\* number of rows of data whose RaceClean is not missing.
C26_CrossTabContainsModelRows ==
    Ran("crosstab") =>
        /\ CountedInCrossTab(SummaryRows(FullStages(nb), model), fel)
        /\ (Ran("fit_rf") /\ ~Ran("fit_rf_mj")) =>
              CountedInCrossTab(Project(pred_rf, Cols(data)), fel)
        /\ TotalCount(fel, DOMAIN fel) =
              CountWhere(data, {r \in DOMAIN data : r["RaceClean"] # NULL})
        /\ model["classifier"].trainedOn <= TotalCount(fel, DOMAIN fel)

\* The cross-tab counts a row without sex, which no model uses, next to a
\* row the model was fitted on.
C26_Witness ==
    /\ Ran("crosstab")
    /\ model["classifier"].trainedOn > 0
    /\ model["classifier"].trainedOn < TotalCount(fel, DOMAIN fel)
    /\ \E r \in DOMAIN data : r[SexCol(nb)] = NULL /\ r["RaceClean"] # NULL



(***************************************************************************)
(* C27.  Circuit marijuana model: train and test partition data_mj; the    *)
(* model is derived from train only; predictions exist for rows of test    *)
(* only.                                                                   *)
(***************************************************************************)
\* C27: in the circuit notebook, after the second split every row of
\* data_mj is in exactly one of train and test (rows counted with their
\* multiplicity); the vocabularies of the marijuana model hold values of
\* train only and its classifier was fitted on the rows of train that are
\* not skipped; pred_mj holds exactly the rows of test that are not
\* skipped, so no more copies of a row than test holds.
C27_SplitPartitionsAndSeparates ==
    nb = "circuit" =>
        /\ Ran("split_mj") =>
              /\ train (+) test = data_mj
              /\ \A r \in DOMAIN data_mj :
                    Copies(train, r) + Copies(test, r) = data_mj[r]
        /\ Ran("fit_mj") =>
              /\ \A st \in IndexerStages(MjStages(nb)) :
                    Range(model_mj[st.out]) \subseteq Observed(train, st.in)
              /\ SummaryRows(MjStages(nb), model_mj) = Survivors(MjStages(nb), model_mj, train)
              /\ model_mj["classifier"].trainedOn
                    = NumRows(Survivors(MjStages(nb), model_mj, train))
        /\ Ran("transform_mj") =>
              LET back == MapRows(pred_mj, [r \in DOMAIN pred_mj |->
                                              Without(r, AddedCols(MjStages(nb)))])
              IN  /\ back = Survivors(MjStages(nb), model_mj, test)
                  /\ \A r \in DOMAIN back : back[r] <= data_mj[r] - Copies(train, r)

\* Both parts hold rows, a row of test is predicted, and another row of
\* test is skipped because train does not hold its value.
C27_Witness ==
    /\ nb = "circuit"
    /\ Ran("transform_mj")
    /\ train # EmptyBag
    /\ pred_mj # EmptyBag
    /\ NumRows(pred_mj) < NumRows(test)
    /\ \E r \in DOMAIN test :
          r["RaceClean"] # NULL /\ r["RaceClean"] \notin Range(model_mj["RaceInd"])



(***************************************************************************)
(* C28.  Every name in the list of fields to coerce is the name of a       *)
(* column of the loaded table, so every listed field is typed double by    *)
(* the explicit schema.                                                    *)
(***************************************************************************)
\* The names of the list that the schema types double.
TypedDouble(list, names) ==
    {n \in names : \E i \in DOMAIN list : list[i].name = n /\ list[i].dataType = "DoubleType"}

\* C28: for the circuit files, once the explicit schema is built every
\* name of the list of fields to coerce is a column of that schema, typed
\* double.
C28_EveryListedFieldTypedDouble ==
    (nb = "circuit" /\ inferred = CircuitSchema /\ schema # NoSchema) =>
        TypedDouble(schema, NumericFields(nb)) = NumericFields(nb)



(***************************************************************************)
(* C29.  For year codes in 1..12 the recoding gives every retained row a   *)
(* calendar year of 2010..2019 and gives different codes different years.  *)
(***************************************************************************)
\* The (county, year) pairs of a table.
CountyYears(df) == {<<r["COUNTY"], r["YEAR"]>> : r \in DOMAIN df}

\* C29: when every YEAR code of census is in 1..12, after the recoding no
\* row of census_clean holds the default 0, every row holds a year of
\* 2010..2019, and census_clean has as many different (county, year) pairs
\* and as many different years as the retained rows of census have
\* (county, code) pairs and codes.
C29_RecodingTotalAndInjective ==
    (nb = "census" /\ Ran("recode_year") /\ \A r \in DOMAIN census : r["YEAR"] \in 1..12) =>
        /\ \A r \in DOMAIN census_clean : r["YEAR"] # 0 /\ r["YEAR"] \in 2010..2019
        /\ Cardinality(CountyYears(census_clean)) = Cardinality(CountyYears(JulyTotals))
        /\ Cardinality({r["YEAR"] : r \in DOMAIN census_clean})
              = Cardinality({r["YEAR"] : r \in DOMAIN JulyTotals})

\* Two retained rows with the codes 3 and 4, recoded to 2010 and 2011.
C29_Witness ==
    /\ nb = "census" /\ Ran("recode_year")
    /\ {r["YEAR"] : r \in DOMAIN JulyTotals} = {3, 4}
    /\ {r["YEAR"] : r \in DOMAIN census_clean} = {2010, 2011}



(***************************************************************************)
(* C30.  Within a fitted pipeline two encoded rows have the same feature   *)
(* vector if and only if they agree on every predictor column; no two      *)
(* categories of a column share a block.                                   *)
(***************************************************************************)
InjectiveOnPredictors(stages, out) ==
    \A r, q \in DOMAIN out :
        /\ r["features"] = q["features"]
              <=> \A st \in IndexerStages(stages) : r[st.in] = q[st.in]
        /\ \A b \in Blocks(stages) :
              r[b[2]] = q[b[2]] <=> r[b[1].in] = q[b[1].in]

\* C30: in the output of each fitted pipeline, two rows have the same
\* feature vector exactly when they hold the same value in every predictor
\* column of the pipeline, and the same one-hot block of a column exactly
\* when they hold the same value in that column.
C30_EncodingInjectiveOnPredictors ==
    /\ Ran("fit") => InjectiveOnPredictors(FullStages(nb), pred)
    /\ Ran("transform_mj") => InjectiveOnPredictors(MjStages(nb), pred_mj)
    /\ Ran("fit_rf") => InjectiveOnPredictors(RfStages, pred_rf)

\* Three encoded rows: two that differ only in a column that is no
\* predictor, with one vector, and one of another race, of which one race
\* is the dropped last category, with another vector.
C30_Witness ==
    /\ Ran("fit")
    /\ Len(model["RaceInd"]) = 2
    /\ \E r, q, o \in DOMAIN pred :
          /\ r # q /\ r["features"] = q["features"]
          /\ r[ChargeTypeCol(nb)] # q[ChargeTypeCol(nb)]
          /\ o["RaceClean"] # r["RaceClean"]
          /\ o["features"] # r["features"]
          /\ \A k \in DOMAIN o["RaceOH"] : o["RaceOH"][k] = 0


=============================================================================
